---- MODULE Spec2Model ----
(***************************************************************************)
(* Model of syncOpenseaOrders.js: the pagination loop of main(), the       *)
(* upstream fetch (fetchOrders), the backend forward (postOrderToBackend)  *)
(* and the shape-tolerant extraction of a listing from a raw order.        *)
(*                                                                         *)
(* JavaScript values are records tagged by k: "null" (null, undefined or   *)
(* an absent property), "bool", "num", "str" (s is the sequence of the     *)
(* string's characters) and "obj".  Truthy is JavaScript's ToBoolean.      *)
(***************************************************************************)
EXTENDS Integers, Sequences, FiniteSets, TLC

\* ------------------------------------------------------------------ bounds
\* Upstream pages a run may fetch before the upstream runs out of listings.
MaxPages == 2
\* Records of one upstream page.
MaxLen == 2

\* -------------------------------------------------------- JavaScript values
Null == [k |-> "null", n |-> 0, s |-> <<>>]
Bool(b) == [k |-> "bool", n |-> IF b THEN 1 ELSE 0, s |-> <<>>]
Num(i) == [k |-> "num", n |-> i, s |-> <<>>]
Str(chars) == [k |-> "str", n |-> 0, s |-> chars]
\* {address: a}; {} is MakerObj(Null).
MakerObj(a) == [k |-> "obj", address |-> a]

Truthy(v) ==
  CASE v.k = "null" -> FALSE
    [] v.k = "bool" -> v.n = 1
    [] v.k = "num" -> v.n # 0
    [] v.k = "str" -> v.s # <<>>
    [] OTHER -> TRUE

\* a || b
Or(a, b) == IF Truthy(a) THEN a ELSE b
\* a ?? b
Coalesce(a, b) == IF a.k = "null" THEN b ELSE a

\* String.prototype.toLowerCase, character by character.
LowerChar(c) ==
  CASE c = "A" -> "a"
    [] c = "B" -> "b"
    [] c = "C" -> "c"
    [] c = "D" -> "d"
    [] c = "E" -> "e"
    [] c = "F" -> "f"
    [] OTHER -> c

toLowerCase(chars) == [i \in 1..Len(chars) |-> LowerChar(chars[i])]

Digit(d) ==
  CASE d = 0 -> "0" [] d = 1 -> "1" [] d = 2 -> "2" [] d = 3 -> "3" [] d = 4 -> "4"
    [] d = 5 -> "5" [] d = 6 -> "6" [] d = 7 -> "7" [] d = 8 -> "8" [] OTHER -> "9"

RECURSIVE NatToChars(_)
NatToChars(i) == IF i < 10 THEN <<Digit(i)>> ELSE NatToChars(i \div 10) \o <<Digit(i % 10)>>

\* ToString as a template literal applies it.
ToChars(v) ==
  CASE v.k = "str" -> v.s
    [] v.k = "num" -> IF v.n < 0 THEN <<"-">> \o NatToChars(0 - v.n) ELSE NatToChars(v.n)
    [] v.k = "bool" -> IF v.n = 1 THEN <<"t", "r", "u", "e">> ELSE <<"f", "a", "l", "s", "e">>
    [] v.k = "null" -> <<"n", "u", "l", "l">>
    [] OTHER -> <<"[", "o", "b", "j", "e", "c", "t", " ", "O", "b", "j", "e", "c", "t", "]">>

\* process.env.PROXY_CONTRACT_ADDRESS
PROXY_CONTRACT_ADDRESS == Str(<<"0", "x", "P">>)

\* ------------------------------------------------------ raw orders (inputs)
\* nftMeta objects: the properties extractTokenId and extractImage read.
Meta(identifier, token_id, tokenId, id, image_url, image, thumbnail, metadata_image) ==
  [k |-> "obj", identifier |-> identifier, token_id |-> token_id, tokenId |-> tokenId,
   id |-> id, image_url |-> image_url, image |-> image, thumbnail |-> thumbnail,
   metadata_image |-> metadata_image]

\* A raw order with every property main() and its helpers read, paths flattened
\* (criteria_metadata is ord.criteria.metadata, assets0 is ord.assets[0], ...).
EmptyOrder ==
  [k |-> "obj",
   criteria_metadata |-> Null, asset |-> Null, assets0 |-> Null, item |-> Null,
   items0 |-> Null,
   protocol_data |-> Null, protocolData |-> Null, protocol |-> Null,
   maker |-> Null, maker_address |-> Null,
   order_hash |-> Null, hash |-> Null,
   price_current_value |-> Null, price_value |-> Null, current_price |-> Null,
   starting_price |-> Null]

\* The order's protocol data, an object main() passes through unread.
ProtoObj(name) == [k |-> "obj", name |-> name]

TokenA == Str(<<"7">>)
TokenB == Str(<<"8">>)
AddrUpper == Str(<<"0", "x", "A", "B">>)
AddrPlain == Str(<<"0", "x", "C", "d">>)
AddrOther == Str(<<"0", "x", "e", "f">>)
HashA == Str(<<"h", "1">>)
HashB == Str(<<"h", "2">>)
ImageA == Str(<<"i", "1">>)
ImageB == Str(<<"i", "2">>)

MetaOf(identifier) == Meta(identifier, Null, Null, Null, Null, Null, Null, Null)
GoodMaker == MakerObj(AddrOther)
GoodOrder == [EmptyOrder EXCEPT !.asset = MetaOf(TokenA), !.maker = GoodMaker,
                                !.order_hash = HashA]

\* Token-id shapes: each of the four properties absent, falsy or set.
TokenMetas ==
  {Meta(i, t, tk, d, Null, Null, Null, Null) :
     i \in {Null, Num(0), Str(<<>>), TokenA},
     t \in {Null, Num(0), TokenB},
     tk \in {Null, Num(9)},
     d \in {Null, Num(4)}}

TokenOrders == {[GoodOrder EXCEPT !.asset = m] : m \in TokenMetas}

\* Where the nftMeta sits in the order.
MetaOrders ==
  {[GoodOrder EXCEPT !.criteria_metadata = c, !.asset = a] :
     c \in {Null, MetaOf(TokenB)}, a \in {Null, MetaOf(TokenA), Str(<<"x">>)}}
  \cup {[GoodOrder EXCEPT !.asset = Null, !.assets0 = MetaOf(TokenA)],
        [GoodOrder EXCEPT !.asset = Null, !.assets0 = MetaOf(TokenA), !.item = MetaOf(TokenB)],
        [GoodOrder EXCEPT !.asset = Null, !.item = MetaOf(TokenA), !.items0 = MetaOf(TokenB)],
        [GoodOrder EXCEPT !.asset = Null, !.items0 = MetaOf(TokenB)]}

\* Seller and order-hash shapes.
MakerVals ==
  {Null, MakerObj(Null), MakerObj(AddrUpper), MakerObj(Num(5)), AddrPlain, Num(5)}

MakerOrders ==
  {[GoodOrder EXCEPT !.maker = m, !.maker_address = ma, !.order_hash = h] :
     m \in MakerVals, ma \in {Null, AddrOther}, h \in {Null, HashA}}
  \cup {[GoodOrder EXCEPT !.order_hash = Null, !.hash = HashB],
        [GoodOrder EXCEPT !.hash = HashB],
        [GoodOrder EXCEPT !.asset = MetaOf(Num(12)), !.order_hash = Null]}

PriceOrders ==
  {[GoodOrder EXCEPT !.price_current_value = p, !.starting_price = sp] :
     p \in {Null, Num(0), Str(<<"1", "5">>)}, sp \in {Null, Num(3)}}
  \cup {[GoodOrder EXCEPT !.price_value = Str(<<"2">>)],
        [GoodOrder EXCEPT !.price_value = Str(<<"2">>), !.current_price = Str(<<"4">>)],
        [GoodOrder EXCEPT !.current_price = Str(<<"4">>), !.starting_price = Num(3)],
        [GoodOrder EXCEPT !.price_value = Str(<<>>), !.current_price = Num(0)]}

ProtocolOrders ==
  {[GoodOrder EXCEPT !.protocol_data = a, !.protocol = b] :
     a \in {Null, ProtoObj("protocol_data")}, b \in {Null, ProtoObj("protocol")}}
  \cup {[GoodOrder EXCEPT !.protocolData = ProtoObj("protocolData")]}

ImageOrders ==
  {[GoodOrder EXCEPT !.asset = Meta(TokenA, Null, Null, Null, a, b, Null, Null)] :
     a \in {Null, ImageA}, b \in {Null, ImageB}}
  \cup {[GoodOrder EXCEPT !.asset = Meta(TokenA, Null, Null, Null, Null, Null, ImageA, ImageB)],
        [GoodOrder EXCEPT !.asset = Meta(TokenA, Null, Null, Null, Null, Null, Null, ImageB)]}

\* The elements an orders array may hold (a null or a number is JSON too).
RawOrders ==
  TokenOrders \cup MetaOrders \cup MakerOrders \cup PriceOrders \cup ProtocolOrders
    \cup ImageOrders \cup {Null, Num(5)}

\* ------------------------------------------------------------- extraction
IsObj(v) == v.k = "obj"

extractNftMeta(ord) ==
  IF ~IsObj(ord) THEN Null
  ELSE Or(ord.criteria_metadata, Or(ord.asset, Or(ord.assets0, Or(ord.item,
         Or(ord.items0, Null)))))

extractTokenId(nftMeta) ==
  IF ~IsObj(nftMeta) THEN Null
  ELSE Or(nftMeta.identifier, Or(nftMeta.token_id, Or(nftMeta.tokenId,
         Or(nftMeta.id, Null))))

extractImage(nftMeta) ==
  IF ~IsObj(nftMeta) THEN Null
  ELSE Or(nftMeta.image_url, Or(nftMeta.image, Or(nftMeta.thumbnail,
         Or(nftMeta.metadata_image, Null))))

\* The try block; no property read of a JSON value faults, so the catch branch
\* (the all-null shape) is never taken.
normalizeOrder(order) ==
  [protocol |-> Or(order.protocol_data, Or(order.protocolData, Or(order.protocol, Null))),
   maker |-> Or(order.maker, Or(order.maker_address, MakerObj(Null))),
   orderHash |-> Or(order.order_hash, Or(order.hash, Null)),
   price |-> Or(order.price_current_value, Or(order.price_value,
               Or(order.current_price, Or(order.starting_price, Null))))]

\* maker?.address
AddressOf(maker) == IF IsObj(maker) THEN maker.address ELSE Null

\* maker?.address || maker || "unknown", the receiver of .toLowerCase()
SellerValue(maker) == Or(AddressOf(maker), Or(maker, Str(<<"u", "n", "k", "n", "o", "w", "n">>)))

\* .toLowerCase is not a function of a non-string: a TypeError.
PayloadThrows(maker) == SellerValue(maker).k # "str"

SynthHash(tokenId, maker) ==
  Str(ToChars(tokenId) \o <<"-">>
        \o ToChars(Or(AddressOf(maker), Str(<<"u", "n", "k", "n", "o", "w", "n">>))))

\* The payload without the `?? 0` of its price.
Payload_NoPriceDefault(ord, tokenId, image, norm) ==
  [tokenId |-> tokenId,
   price |-> norm.price,
   sellerAddress |-> Str(toLowerCase(SellerValue(norm.maker).s)),
   seaportOrder |-> Or(norm.protocol, ord),
   orderHash |-> Or(norm.orderHash, SynthHash(tokenId, norm.maker)),
   image |-> Or(image, Null),
   marketplaceContract |-> PROXY_CONTRACT_ADDRESS]

Payload(ord, tokenId, image, norm) ==
  [tokenId |-> tokenId,
   price |-> Coalesce(norm.price, Num(0)),
   sellerAddress |-> Str(toLowerCase(SellerValue(norm.maker).s)),
   seaportOrder |-> Or(norm.protocol, ord),
   orderHash |-> Or(norm.orderHash, SynthHash(tokenId, norm.maker)),
   image |-> Or(image, Null),
   marketplaceContract |-> PROXY_CONTRACT_ADDRESS]

\* ------------------------------------------------------------ the upstream
\* encodeURIComponent on the characters a cursor here is made of.
EncodeChar(c) ==
  CASE c = "=" -> <<"%", "3", "D">>
    [] c = "&" -> <<"%", "2", "6">>
    [] c = "%" -> <<"%", "2", "5">>
    [] OTHER -> <<c>>

RECURSIVE encodeURIComponent(_)
encodeURIComponent(chars) ==
  IF chars = <<>> THEN <<>> ELSE EncodeChar(Head(chars)) \o encodeURIComponent(Tail(chars))

\* The part of the request URL after the fixed query: `&cursor=...` or nothing.
CursorQuery(cursor) ==
  IF Truthy(cursor)
    THEN <<"&", "c", "u", "r", "s", "o", "r", "=">> \o encodeURIComponent(ToChars(cursor))
    ELSE <<>>

CursorA == Str(<<"a", "b", "c">>)
CursorB == Str(<<"c", "=">>)

\* The `orders` property of a body: absent, a number, an array, a string or an
\* object with a length that cannot be iterated.
Orders(kind, length) == [k |-> kind, length |-> length]

OrdersVals ==
  {Orders("absent", 0), Orders("number", 0), Orders("string", 1), Orders("object", 1)}
    \cup {Orders("array", n) : n \in 0..MaxLen}

Body(orders, next, cursor) == [k |-> "obj", orders |-> orders, next |-> next, cursor |-> cursor]

NoBody == Body(Orders("absent", 0), Null, Null)
MalformedBody == [NoBody EXCEPT !.k = "malformed"]
NullBody == [NoBody EXCEPT !.k = "null"]

\* What a page says about its successor; on the upstream's last page, nothing.
NextVals(last) == IF last THEN {Null, Str(<<>>)} ELSE {Null, Str(<<>>), CursorA}
CursorVals(last) == IF last THEN {Null} ELSE {Null, CursorB}

Response(kind, isOk, textRejects, body) ==
  [kind |-> kind, ok |-> isOk, textRejects |-> textRejects, body |-> body]

NoResponse == Response("none", FALSE, FALSE, NoBody)

\* Every way the upstream answers one GET: fetch() rejects, a non-2xx status
\* (whose text may fail to read), a 2xx whose body is no JSON, a 2xx with JSON.
UpstreamResponses(last) ==
  {Response("reject", FALSE, FALSE, NoBody), Response("http", TRUE, FALSE, MalformedBody),
   Response("http", TRUE, FALSE, NullBody)}
    \cup {Response("http", FALSE, t, NoBody) : t \in BOOLEAN}
    \cup {Response("http", TRUE, FALSE, Body(o, n, c)) :
            o \in OrdersVals, n \in NextVals(last), c \in CursorVals(last)}

\* fetchOrders as it would be with a throw in the !res.ok branch.
fetchOrdersThrows_OnBadStatus(r) ==
  r.kind = "reject" \/ ~r.ok \/ (r.ok /\ r.body.k = "malformed")

\* fetchOrders: does the awaited call reject?
fetchOrdersThrows(r) == r.kind = "reject" \/ (r.ok /\ r.body.k = "malformed")

\* fetchOrders: the value it resolves to (null after a non-2xx status).
fetchOrders(r) == IF ~r.ok THEN NullBody ELSE r.body

\* data?.orders?.length, as a number (undefined counts as 0: both are falsy)
OrdersLength(d) ==
  IF d.k = "obj" /\ d.orders.k \in {"array", "string", "object"} THEN d.orders.length ELSE 0

\* for (const ord of data.orders): a plain object is not iterable
Iterable(d) == d.orders.k \in {"array", "string"}

\* The values the loop variable `ord` may take at one position of the page.
Elements(d) == IF d.orders.k = "string" THEN {Str(<<"x">>)} ELSE RawOrders

\* ------------------------------------------------------------- the backend
JsonBody(kind, success) == [k |-> kind, success |-> success]

SuccessVals == {Null, Bool(FALSE), Bool(TRUE), Num(0), Num(1)}

BackendResponses ==
  {Response("reject", FALSE, FALSE, JsonBody("null", Null)),
   Response("http", TRUE, FALSE, JsonBody("malformed", Null)),
   Response("http", TRUE, FALSE, JsonBody("null", Null))}
    \cup {Response("http", FALSE, t, JsonBody("obj", Bool(TRUE))) : t \in BOOLEAN}
    \cup {Response("http", TRUE, FALSE, JsonBody("obj", v)) : v \in SuccessVals}

\* postOrderToBackend without the !res.ok branch.
postOrderToBackend_IgnoresStatus(orderPayload, r) ==
  IF r.kind = "reject" THEN FALSE
  ELSE LET d == IF r.body.k = "obj" THEN r.body.success ELSE Null
       IN Truthy(d)

\* postOrderToBackend without the !data?.success branch.
postOrderToBackend_IgnoresFlag(orderPayload, r) ==
  IF r.kind = "reject" THEN FALSE ELSE r.ok

\* postOrderToBackend: every fault inside is caught and answered with false.
postOrderToBackend(orderPayload, r) ==
  IF r.kind = "reject" THEN FALSE
  ELSE IF ~r.ok THEN FALSE
  ELSE LET d == IF r.body.k = "obj" THEN r.body.success ELSE Null
       IN Truthy(d)

\* ------------------------------------------------------------------ state
\* sleep(200) after a forwarded record, sleep(500) before the next page.
RecordDelayMs == 200
PageDelayMs == 500

VARIABLES
  pc,            \* where main() stands
  cursor, totalScanned, totalSent,   \* main()'s three locals
  data,          \* the page fetchOrders resolved to
  idx,           \* position of the for-of loop in data.orders
  ord,           \* the record of the current iteration, Null between records
  payload,       \* the listing in the POST in flight, Null otherwise
  ok,            \* what postOrderToBackend returned for payload
  url,           \* the cursor part of the last request URL
  res,           \* the upstream's answer to the last fetch
  bres,          \* the backend's answer to the last POST
  fetchCount,    \* GET requests issued
  forwardCount,  \* POST /order requests issued
  exitCode,      \* -1 while running
  reported,      \* the summary lines, <<>> until written
  inflight,      \* requests issued and not yet settled, per peer
  clock,         \* milliseconds spent in sleep()
  pageSkipped    \* history: <<totalScanned, totalSent, forwardCount>> as the
                 \* current page arrived while all its records so far were
                 \* skipped, <<>> otherwise

vars == <<pc, cursor, totalScanned, totalSent, data, idx, ord, payload, ok, url, res,
          bres, fetchCount, forwardCount, exitCode, reported, inflight, clock,
          pageSkipped>>

Init ==
  /\ pc = "FETCHING"
  /\ cursor = Null
  /\ totalScanned = 0
  /\ totalSent = 0
  /\ data = NullBody
  /\ idx = 0
  /\ ord = Null
  /\ payload = Null
  /\ ok = FALSE
  /\ url = <<>>
  /\ res = NoResponse
  /\ bres = NoResponse
  /\ fetchCount = 0
  /\ forwardCount = 0
  /\ exitCode = -1
  /\ reported = <<>>
  /\ inflight = [upstream |-> 0, backend |-> 0]
  /\ clock = 0
  /\ pageSkipped = <<>>

\* Top of the while loop: fetchOrders builds the URL and issues the GET.
FetchCall ==
  /\ pc = "FETCHING"
  /\ url' = CursorQuery(cursor)
  /\ fetchCount' = fetchCount + 1
  /\ inflight' = [inflight EXCEPT !.upstream = @ + 1]
  /\ pc' = "AWAIT_FETCH"
  /\ UNCHANGED <<cursor, totalScanned, totalSent, data, idx, ord, payload, ok, res, bres,
                 forwardCount, exitCode, reported, clock, pageSkipped>>

\* The GET settles: fetchOrders resolves or rejects, main() tests the page.
FetchReturn ==
  /\ pc = "AWAIT_FETCH"
  /\ \E r \in UpstreamResponses(fetchCount >= MaxPages) :
       /\ res' = r
       /\ IF fetchOrdersThrows(r)
            THEN /\ pc' = "REJECTED"
                 /\ UNCHANGED <<data, idx>>
            ELSE /\ data' = fetchOrders(r)
                 /\ idx' = 0
                 /\ pc' = IF OrdersLength(data') = 0 THEN "DONE"
                          ELSE IF ~Iterable(data') THEN "REJECTED"
                          ELSE "PROCESSING_PAGE"
  /\ inflight' = [inflight EXCEPT !.upstream = @ - 1]
  /\ pageSkipped' = IF pc' = "PROCESSING_PAGE"
                      THEN <<totalScanned, totalSent, forwardCount>> ELSE <<>>
  /\ UNCHANGED <<cursor, totalScanned, totalSent, ord, payload, ok, url, bres, fetchCount,
                 forwardCount, exitCode, reported, clock>>

\* The two `continue` tests without the second one.
Skips_MetaOnly(o) == ~Truthy(extractNftMeta(o))

\* `continue`: no nftMeta, or no tokenId.
Skips(o) == ~Truthy(extractNftMeta(o)) \/ ~Truthy(extractTokenId(extractNftMeta(o)))

\* The for-of loop binds the next element of data.orders to `ord`.
NextRecord ==
  /\ pc = "PROCESSING_PAGE"
  /\ idx < OrdersLength(data)
  /\ \E o \in Elements(data) : ord' = o
  /\ pc' = "RECORD"
  /\ UNCHANGED <<cursor, totalScanned, totalSent, data, idx, payload, ok, url, res, bres,
                 fetchCount, forwardCount, exitCode, reported, inflight, clock,
                 pageSkipped>>

SkipRecord ==
  /\ pc = "RECORD"
  /\ Skips(ord)
  /\ idx' = idx + 1
  /\ ord' = Null
  /\ pc' = "PROCESSING_PAGE"
  /\ UNCHANGED <<cursor, totalScanned, totalSent, data, payload, ok, url, res, bres,
                 fetchCount, forwardCount, exitCode, reported, inflight, clock,
                 pageSkipped>>

\* Building the payload faults (.toLowerCase of a non-string): main() rejects.
PayloadFault ==
  /\ pc = "RECORD"
  /\ ~Skips(ord)
  /\ PayloadThrows(normalizeOrder(ord).maker)
  /\ pageSkipped' = <<>>
  /\ pc' = "REJECTED"
  /\ UNCHANGED <<cursor, totalScanned, totalSent, data, idx, ord, payload, ok, url, res,
                 bres, fetchCount, forwardCount, exitCode, reported, inflight, clock>>

\* ForwardCall without the await: the loop goes on while the POST is out.
ForwardCall_NoAwait ==
  /\ pc = "RECORD"
  /\ ~Skips(ord)
  /\ ~PayloadThrows(normalizeOrder(ord).maker)
  /\ payload' = Payload(ord, extractTokenId(extractNftMeta(ord)),
                        extractImage(extractNftMeta(ord)), normalizeOrder(ord))
  /\ totalScanned' = totalScanned + 1
  /\ forwardCount' = forwardCount + 1
  /\ inflight' = [inflight EXCEPT !.backend = @ + 1]
  /\ pageSkipped' = <<>>
  /\ pc' = "SLEEP_200"
  /\ UNCHANGED <<cursor, totalSent, data, idx, ord, ok, url, res, bres, fetchCount,
                 exitCode, reported, clock>>

\* ForwardCall without the totalScanned++.
ForwardCall_NotCounted ==
  /\ pc = "RECORD"
  /\ ~Skips(ord)
  /\ ~PayloadThrows(normalizeOrder(ord).maker)
  /\ payload' = Payload(ord, extractTokenId(extractNftMeta(ord)),
                        extractImage(extractNftMeta(ord)), normalizeOrder(ord))
  /\ forwardCount' = forwardCount + 1
  /\ inflight' = [inflight EXCEPT !.backend = @ + 1]
  /\ pageSkipped' = <<>>
  /\ pc' = "AWAIT_FORWARD"
  /\ UNCHANGED <<cursor, totalScanned, totalSent, data, idx, ord, ok, url, res, bres,
                 fetchCount, exitCode, reported, clock>>

\* The payload is built, the record counted and the POST issued.
ForwardCall ==
  /\ pc = "RECORD"
  /\ ~Skips(ord)
  /\ ~PayloadThrows(normalizeOrder(ord).maker)
  /\ payload' = Payload(ord, extractTokenId(extractNftMeta(ord)),
                        extractImage(extractNftMeta(ord)), normalizeOrder(ord))
  /\ totalScanned' = totalScanned + 1
  /\ forwardCount' = forwardCount + 1
  /\ inflight' = [inflight EXCEPT !.backend = @ + 1]
  /\ pageSkipped' = <<>>
  /\ pc' = "AWAIT_FORWARD"
  /\ UNCHANGED <<cursor, totalSent, data, idx, ord, ok, url, res, bres, fetchCount,
                 exitCode, reported, clock>>

\* The POST settles: postOrderToBackend returns, totalSent counts a success.
\* The record and the request body are not read again.
ForwardReturn ==
  /\ pc = "AWAIT_FORWARD"
  /\ \E b \in BackendResponses :
       /\ bres' = b
       /\ ok' = postOrderToBackend(payload, b)
  /\ totalSent' = IF ok' THEN totalSent + 1 ELSE totalSent
  /\ inflight' = [inflight EXCEPT !.backend = @ - 1]
  /\ ord' = Null
  /\ payload' = Null
  /\ pc' = "SLEEP_200"
  /\ UNCHANGED <<cursor, totalScanned, data, idx, url, res, fetchCount, forwardCount,
                 exitCode, reported, clock, pageSkipped>>

\* The end of the iteration without its sleep(200).
Sleep200_NoDelay ==
  /\ pc = "SLEEP_200"
  /\ idx' = idx + 1
  /\ ok' = FALSE
  /\ bres' = NoResponse
  /\ pc' = "PROCESSING_PAGE"
  /\ UNCHANGED <<cursor, totalScanned, totalSent, data, ord, payload, url, res, fetchCount,
                 forwardCount, exitCode, reported, inflight, clock, pageSkipped>>

\* sleep(200) elapses; the iteration ends and its block-scoped values go.
Sleep200 ==
  /\ pc = "SLEEP_200"
  /\ clock' = clock + RecordDelayMs
  /\ idx' = idx + 1
  /\ ok' = FALSE
  /\ bres' = NoResponse
  /\ pc' = "PROCESSING_PAGE"
  /\ UNCHANGED <<cursor, totalScanned, totalSent, data, ord, payload, url, res, fetchCount,
                 forwardCount, exitCode, reported, inflight, pageSkipped>>

\* EndOfPage reading data.cursor before data.next.
EndOfPage_CursorFirst ==
  /\ pc = "PROCESSING_PAGE"
  /\ idx >= OrdersLength(data)
  /\ cursor' = Or(data.cursor, Or(data.next, Null))
  /\ pc' = IF ~Truthy(cursor') THEN "DONE" ELSE "SLEEP_500"
  /\ UNCHANGED <<totalScanned, totalSent, data, idx, ord, payload, ok, url, res, bres,
                 fetchCount, forwardCount, exitCode, reported, inflight, clock,
                 pageSkipped>>

\* EndOfPage stopping after a page that yielded no listing.
EndOfPage_StopsOnSkippedPage ==
  /\ pc = "PROCESSING_PAGE"
  /\ idx >= OrdersLength(data)
  /\ cursor' = Or(data.next, Or(data.cursor, Null))
  /\ pc' = IF ~Truthy(cursor') \/ pageSkipped # <<>> THEN "DONE" ELSE "SLEEP_500"
  /\ UNCHANGED <<totalScanned, totalSent, data, idx, ord, payload, ok, url, res, bres,
                 fetchCount, forwardCount, exitCode, reported, inflight, clock,
                 pageSkipped>>

\* After the last record: take the page's cursor, stop without one.
EndOfPage ==
  /\ pc = "PROCESSING_PAGE"
  /\ idx >= OrdersLength(data)
  /\ cursor' = Or(data.next, Or(data.cursor, Null))
  /\ pc' = IF ~Truthy(cursor') THEN "DONE" ELSE "SLEEP_500"
  /\ UNCHANGED <<totalScanned, totalSent, data, idx, ord, payload, ok, url, res, bres,
                 fetchCount, forwardCount, exitCode, reported, inflight, clock,
                 pageSkipped>>

\* sleep(500) elapses, back to the top of the loop.
Sleep500 ==
  /\ pc = "SLEEP_500"
  /\ clock' = clock + PageDelayMs
  /\ pc' = "FETCHING"
  /\ UNCHANGED <<cursor, totalScanned, totalSent, data, idx, ord, payload, ok, url, res,
                 bres, fetchCount, forwardCount, exitCode, reported, inflight,
                 pageSkipped>>

\* After the loop: the summary is written and main() resolves.
Report ==
  /\ pc = "DONE"
  /\ reported' = <<totalScanned, totalSent>>
  /\ exitCode' = 0
  /\ pc' = "EXITED"
  /\ UNCHANGED <<cursor, totalScanned, totalSent, data, idx, ord, payload, ok, url, res,
                 bres, fetchCount, forwardCount, inflight, clock, pageSkipped>>

\* main().catch: the fault is logged and the process exits with 1.
MainCatch ==
  /\ pc = "REJECTED"
  /\ exitCode' = 1
  /\ pc' = "EXITED"
  /\ UNCHANGED <<cursor, totalScanned, totalSent, data, idx, ord, payload, ok, url, res,
                 bres, fetchCount, forwardCount, reported, inflight, clock, pageSkipped>>

Next ==
  \/ FetchCall
  \/ FetchReturn
  \/ NextRecord
  \/ SkipRecord
  \/ PayloadFault
  \/ ForwardCall
  \/ ForwardReturn
  \/ Sleep200
  \/ EndOfPage
  \/ Sleep500
  \/ Report
  \/ MainCatch

Spec == Init /\ [][Next]_vars

\* ================================================================= claims
Unknown == Str(<<"u", "n", "k", "n", "o", "w", "n">>)

\* The record's nftMeta as the specification words it: the first of the five
\* locations that is not null.
FirstMeta(o) ==
  IF ~IsObj(o) THEN Null
  ELSE Coalesce(o.criteria_metadata, Coalesce(o.asset, Coalesce(o.assets0,
         Coalesce(o.item, o.items0))))

\* The tokenId as claim C9 words it: the first of the four properties that is
\* not null.
FirstToken(m) ==
  IF ~IsObj(m) THEN Null
  ELSE Coalesce(m.identifier, Coalesce(m.token_id, Coalesce(m.tokenId, m.id)))

\* No nftMeta anywhere, or an nftMeta none of whose four properties is there.
Unresolvable(o) == FirstMeta(o).k = "null" \/ FirstToken(FirstMeta(o)).k = "null"

CountersKept ==
  /\ totalScanned' = totalScanned
  /\ totalSent' = totalSent

NoRequest ==
  /\ fetchCount' = fetchCount
  /\ forwardCount' = forwardCount

\* C1: a record with no resolvable nftMeta or no resolvable tokenId is skipped:
\* the step that handles it issues no POST, leaves totalScanned and totalSent
\* as they were and moves on to the next position of the page.
C1_SkipLeavesNoTrace ==
  [][(pc = "RECORD" /\ Unresolvable(ord))
       => (CountersKept /\ NoRequest /\ pc' = "PROCESSING_PAGE" /\ idx' = idx + 1)]_vars

\* A page's first record was skipped: the loop is past it with nothing sent.
C1_Witness ==
  /\ pc = "PROCESSING_PAGE"
  /\ data.orders.k = "array"
  /\ idx >= 1
  /\ forwardCount = 0
  /\ totalScanned = 0

\* The upstream's last answer was a transport error or a 2xx with a body that
\* is no JSON.
FetchFaulted == res.kind = "reject" \/ (res.kind = "http" /\ res.ok /\ res.body.k = "malformed")

\* C2: a transport error or a malformed body of an upstream fetch is soft: main()
\* does not reject, the loop stops and the run ends as on exhaustion, with the
\* counters reported and no exit code 1.
C2_FetchFaultIsSoft ==
  FetchFaulted =>
    /\ pc \in {"DONE", "EXITED"}
    /\ exitCode # 1
    /\ (pc = "EXITED" => reported = <<totalScanned, totalSent>>)

\* A page in the claim's sense: a 2xx answer carrying at least one listing.
ProperPage(d) == d.k = "obj" /\ d.orders.k = "array" /\ d.orders.length >= 1

\* The page names a successor: a non-empty `next` or `cursor`.
HasNextCursor(d) ==
  \/ (d.next.k = "str" /\ d.next.s # <<>>)
  \/ (d.cursor.k = "str" /\ d.cursor.s # <<>>)

\* C3: over pages of which only the last has no next-cursor the run issues one
\* fetch per page: when it has ended and every answer was a page, the page
\* fetched last is the one without a next-cursor.
C3_OneFetchPerPage ==
  (pc = "EXITED" /\ res.kind = "http" /\ res.ok /\ res.body = data /\ ProperPage(data))
    => ~HasNextCursor(data)

\* The record has neither maker nor maker_address.
NoSeller(o) == IsObj(o) /\ o.maker.k = "null" /\ o.maker_address.k = "null"

\* C4: a record with a tokenId and no seller is forwarded with sellerAddress
\* "unknown".
C4_NoSellerIsUnknown ==
  (pc # "RECORD" /\ NoSeller(ord) /\ ~Skips(ord))
    => (pc = "AWAIT_FORWARD" /\ payload.sellerAddress = Unknown)

\* C5: building the listing of a record never raises: main() is never rejected
\* while it holds a record.
C5_NormalizationNeverRaises == ~(pc = "REJECTED" /\ IsObj(ord))

\* C6: without order_hash and hash the forwarded orderHash is
\* tokenId + "-" + the listing's own sellerAddress.
C6_SynthHashUsesSeller ==
  (pc = "AWAIT_FORWARD" /\ ord.order_hash.k = "null" /\ ord.hash.k = "null")
    => payload.orderHash
         = Str(ToChars(payload.tokenId) \o <<"-">> \o payload.sellerAddress.s)

\* The backend took the listing: a 2xx answer whose JSON body has success set.
BackendAccepts(b) ==
  /\ b.kind = "http"
  /\ b.ok
  /\ b.body.k = "obj"
  /\ b.body.success \in {Bool(TRUE), Num(1)}

\* C7: a failed forward leaves the record counted in totalScanned (counted when
\* the POST was issued) and not in totalSent, is not retried, and after the
\* 200ms pause the loop stands at the next position of the page.
C7_ForwardFailureIsSoft ==
  /\ [][(pc # "AWAIT_FORWARD" /\ pc' = "AWAIT_FORWARD")
          => (totalScanned' = totalScanned + 1 /\ forwardCount' = forwardCount + 1)]_vars
  /\ [][(pc = "AWAIT_FORWARD" /\ ~BackendAccepts(bres'))
          => (CountersKept /\ NoRequest /\ ~ok' /\ idx' = idx /\ pc' = "SLEEP_200")]_vars
  /\ [][pc = "SLEEP_200"
          => (CountersKept /\ NoRequest /\ idx' = idx + 1 /\ pc' = "PROCESSING_PAGE")]_vars

\* After a failed forward a later record is in flight.
C7_Witness ==
  /\ pc = "AWAIT_FORWARD"
  /\ totalScanned >= 2
  /\ totalSent = 0

\* The upstream answered with a non-2xx status.
BadStatus(r) == r.kind = "http" /\ ~r.ok

\* C8: a non-2xx answer to a fetch ends the loop at once: the step goes to DONE
\* with the counters as they were (0 and 0 on the first fetch), DONE writes
\* them as the summary, and no request follows.
C8_BadStatusEndsRun ==
  /\ [][(pc = "AWAIT_FETCH" /\ BadStatus(res'))
          => (pc' = "DONE" /\ CountersKept /\ NoRequest)]_vars
  /\ [][pc = "DONE"
          => (pc' = "EXITED" /\ reported' = <<totalScanned, totalSent>>
              /\ exitCode' = 0 /\ CountersKept /\ NoRequest)]_vars
  /\ [][pc # "EXITED"]_vars
  /\ [](BadStatus(res) => pc \in {"DONE", "EXITED"})
  /\ []((BadStatus(res) /\ fetchCount = 1) => (totalScanned = 0 /\ totalSent = 0))

\* The second fetch failed after a page with a forwarded record; the run has
\* ended and reported.
C8_Witness ==
  /\ pc = "EXITED"
  /\ BadStatus(res)
  /\ fetchCount = 2
  /\ totalScanned >= 1
  /\ reported = <<totalScanned, totalSent>>

\* C9: the forwarded tokenId is the first of identifier, token_id, tokenId, id
\* that is not null, 0 and "" included.
C9_FirstNonNullToken ==
  pc = "AWAIT_FORWARD" => payload.tokenId = FirstToken(FirstMeta(ord))

\* C10: postOrderToBackend returns true exactly when the backend accepts, and
\* false otherwise; it never raises, so the POST always settles into the pause.
C10_ForwardResult ==
  /\ [](pc = "SLEEP_200" => (ok <=> BackendAccepts(bres)))
  /\ [][pc = "AWAIT_FORWARD" => (pc' = "SLEEP_200" /\ bres'.kind # "none")]_vars

\* A POST the backend accepted has returned true.
C10_Witness ==
  /\ pc = "SLEEP_200"
  /\ ok
  /\ bres.body.success = Bool(TRUE)
  /\ totalSent >= 1

\* None of price.current.value, price.value, current_price, starting_price
\* is there.
NoPrice(o) ==
  /\ IsObj(o)
  /\ o.price_current_value.k = "null"
  /\ o.price_value.k = "null"
  /\ o.current_price.k = "null"
  /\ o.starting_price.k = "null"

\* C11: a record with a tokenId and none of the four price properties is
\* forwarded with the number 0 as its price.
C11_NoPriceIsZero ==
  (pc = "AWAIT_FORWARD" /\ NoPrice(ord)) => payload.price = Num(0)

\* Such a record is in flight, for token 7.
C11_Witness ==
  /\ pc = "AWAIT_FORWARD"
  /\ NoPrice(ord)
  /\ payload.tokenId = TokenA
  /\ payload.price = Num(0)

\* C12: at most one outbound request is in flight at any time: never a GET
\* and a POST together, never two of either.
C12_OneRequestInFlight ==
  /\ inflight.upstream + inflight.backend <= 1
  /\ inflight.upstream = (IF pc = "AWAIT_FETCH" THEN 1 ELSE 0)
  /\ inflight.backend = (IF pc = "AWAIT_FORWARD" THEN 1 ELSE 0)

\* A POST is in flight on the second page, after earlier requests settled.
C12_Witness ==
  /\ inflight.backend = 1
  /\ inflight.upstream = 0
  /\ fetchCount = 2
  /\ forwardCount >= 2

\* C13: records are taken in page order; a forwarded record is counted as its
\* POST is issued, totalSent grows by one exactly when the POST returned true,
\* then 200ms pass before the next position; a skipped record moves on with no
\* delay; a fetch after the first follows the 500ms taken after the previous
\* page's last record.  The clock sums it up: when a request is issued, every
\* earlier POST was followed by 200ms and every earlier page by 500ms.
C13_OrderOfEvents ==
  /\ [][idx' = idx \/ idx' = idx + 1 \/ (pc = "AWAIT_FETCH" /\ idx' = 0)]_vars
  /\ [][(pc' = "AWAIT_FORWARD" /\ pc # "AWAIT_FORWARD")
          => (pc = "RECORD" /\ totalScanned' = totalScanned + 1
              /\ forwardCount' = forwardCount + 1 /\ clock' = clock)]_vars
  /\ [][pc = "AWAIT_FORWARD"
          => (pc' = "SLEEP_200" /\ clock' = clock /\ idx' = idx
              /\ totalSent' = totalSent + (IF ok' THEN 1 ELSE 0))]_vars
  /\ [][pc # "AWAIT_FORWARD" => totalSent' = totalSent]_vars
  /\ [][pc = "SLEEP_200"
          => (pc' = "PROCESSING_PAGE" /\ idx' = idx + 1
              /\ clock' = clock + RecordDelayMs)]_vars
  /\ [][(pc = "RECORD" /\ pc' = "PROCESSING_PAGE")
          => (idx' = idx + 1 /\ clock' = clock)]_vars
  /\ [][pc' = "SLEEP_500" => (pc = "PROCESSING_PAGE" /\ idx = OrdersLength(data))]_vars
  /\ [][pc' = "FETCHING" => (pc = "SLEEP_500" /\ clock' = clock + PageDelayMs)]_vars
  /\ [][fetchCount' # fetchCount => (pc = "FETCHING" /\ clock' = clock)]_vars
  /\ [](pc = "AWAIT_FETCH"
          => clock = RecordDelayMs * forwardCount + PageDelayMs * (fetchCount - 1))
  /\ [](pc = "AWAIT_FORWARD"
          => clock = RecordDelayMs * (forwardCount - 1) + PageDelayMs * (fetchCount - 1))

\* The second fetch is out after a page of two records, one forwarded and one
\* skipped: 200ms and 500ms have passed.
C13_Witness ==
  /\ pc = "AWAIT_FETCH"
  /\ fetchCount = 2
  /\ data.orders.k = "array"
  /\ data.orders.length = 2
  /\ forwardCount = 1
  /\ clock = RecordDelayMs + PageDelayMs

\* A 2xx answer whose body carries no listings: `orders` missing, not a list,
\* or an empty list (a JSON null body included).
NoListings(r) ==
  /\ r.kind = "http"
  /\ r.ok
  /\ r.body.k \in {"obj", "null"}
  /\ ~(r.body.orders.k = "array" /\ r.body.orders.length >= 1)

\* C14: a 2xx answer without listings ends the run as exhaustion does: after
\* it no POST and no further GET is out, whatever cursor the body carries, and
\* main() is not rejected.
C14_NoListingsIsExhaustion ==
  NoListings(res)
    => (pc \notin {"AWAIT_FORWARD", "AWAIT_FETCH", "REJECTED"} /\ exitCode # 1)

\* C15: 0 <= totalSent <= totalScanned; totalScanned is the number of POSTs
\* issued; totalSent grows by one exactly in the steps in which a POST returns
\* true, so it is the number of those; neither counter ever decreases.
C15_Counters ==
  /\ [](0 <= totalSent /\ totalSent <= totalScanned /\ totalScanned = forwardCount)
  /\ [][totalSent' = totalSent + (IF pc = "AWAIT_FORWARD" /\ ok' THEN 1 ELSE 0)]_vars
  /\ [][totalScanned' = totalScanned + (IF forwardCount' # forwardCount THEN 1 ELSE 0)]_vars
  /\ [][forwardCount' >= forwardCount]_vars

\* Two POSTs were issued and one of them returned true.
C15_Witness ==
  /\ forwardCount = 2
  /\ totalScanned = 2
  /\ totalSent = 1
  /\ pc = "PROCESSING_PAGE"

\* The next-cursor of a page as claim C16 words it: `next` when non-empty,
\* otherwise `cursor`.
NextCursorOf(d) == IF d.next.k = "str" /\ d.next.s # <<>> THEN d.next ELSE d.cursor

\* What the upstream reads back from a percent-encoded query value.
RECURSIVE DecodeURIComponent(_)
DecodeURIComponent(chars) ==
  IF chars = <<>> THEN <<>>
  ELSE IF Head(chars) = "%" /\ Len(chars) >= 3
    THEN LET code == <<chars[2], chars[3]>>
             c == CASE code = <<"3", "D">> -> "="
                    [] code = <<"2", "6">> -> "&"
                    [] code = <<"2", "5">> -> "%"
                    [] OTHER -> "?"
         IN <<c>> \o DecodeURIComponent(SubSeq(chars, 4, Len(chars)))
    ELSE <<Head(chars)>> \o DecodeURIComponent(Tail(chars))

CursorParam == <<"&", "c", "u", "r", "s", "o", "r", "=">>

\* The cursor the upstream receives with a request URL, "none" without one.
RECURSIVE QueryValue(_)
QueryValue(chars) ==
  IF chars = <<>> \/ Head(chars) = "&" THEN <<>>
  ELSE <<Head(chars)>> \o QueryValue(Tail(chars))

ReceivedCursor(u) ==
  IF Len(u) >= Len(CursorParam) /\ SubSeq(u, 1, Len(CursorParam)) = CursorParam
    THEN Str(DecodeURIComponent(QueryValue(SubSeq(u, Len(CursorParam) + 1, Len(u)))))
    ELSE Null

\* C16: the first fetch carries no cursor; every later fetch carries exactly
\* the next-cursor of the page before it; `cursor` changes only once a page is
\* fully processed, to that page's next-cursor (null without one), and the
\* request URL only as a fetch is issued.
C16_CursorThreading ==
  /\ []((pc = "AWAIT_FETCH" /\ fetchCount = 1) => ReceivedCursor(url) = Null)
  /\ []((pc = "AWAIT_FETCH" /\ fetchCount >= 2)
          => (HasNextCursor(data) /\ ReceivedCursor(url) = NextCursorOf(data)))
  /\ [][cursor' # cursor
          => (pc = "PROCESSING_PAGE" /\ idx = OrdersLength(data)
              /\ cursor' = (IF HasNextCursor(data) THEN NextCursorOf(data) ELSE Null))]_vars
  /\ [][url' # url => (pc = "FETCHING" /\ fetchCount' = fetchCount + 1)]_vars

\* The second fetch carries the `cursor` of a page whose `next` was empty.
C16_Witness ==
  /\ pc = "AWAIT_FETCH"
  /\ fetchCount = 2
  /\ data.next = Str(<<>>)
  /\ data.cursor = CursorB
  /\ url = CursorParam \o <<"c", "%", "3", "D">>

\* C17: after a non-empty page all of whose records were skipped the counters
\* and the POST count are as they were when the page arrived, and with a
\* next-cursor the run goes on: the 500ms pause, then a fetch with that cursor.
C17_SkippedPageGoesOn ==
  /\ [](pageSkipped # <<>> => pageSkipped = <<totalScanned, totalSent, forwardCount>>)
  /\ [][(pc = "PROCESSING_PAGE" /\ idx >= OrdersLength(data) /\ pageSkipped # <<>>
         /\ HasNextCursor(data))
          => (pc' = "SLEEP_500" /\ cursor' = NextCursorOf(data) /\ CountersKept
              /\ NoRequest)]_vars
  /\ [][pc = "SLEEP_500" => (pc' = "FETCHING" /\ cursor' = cursor /\ NoRequest)]_vars
  /\ [][pc = "FETCHING"
          => (pc' = "AWAIT_FETCH" /\ fetchCount' = fetchCount + 1
              /\ ReceivedCursor(url') = (IF Truthy(cursor) THEN cursor ELSE Null))]_vars

\* The second fetch is out after a page of two records, both skipped.
C17_Witness ==
  /\ pc = "AWAIT_FETCH"
  /\ fetchCount = 2
  /\ pageSkipped # <<>>
  /\ data.orders.k = "array"
  /\ data.orders.length = 2
  /\ forwardCount = 0

\* The upstream's last answer ends the pagination: a non-2xx status, an empty
\* page, or a page without a next-cursor.
TerminalAnswer(r) ==
  \/ BadStatus(r)
  \/ /\ r.kind = "http"
     /\ r.ok
     /\ r.body.k = "obj"
     /\ r.body.orders.k = "array"
     /\ (r.body.orders.length = 0 \/ ~HasNextCursor(r.body))

\* C18: once the upstream has given an answer that ends the pagination, the run
\* ends in DONE with the counters reported: when it has stopped after such an
\* answer, it stopped with the summary written and exit code 0.
C18_EndsInDone ==
  (pc = "EXITED" /\ TerminalAnswer(res))
    => (exitCode = 0 /\ reported = <<totalScanned, totalSent>>)

====
